---- MODULE Spec2Model ----
(***************************************************************************)
(* Timeline reconciliation engine of the audio story pipeline:             *)
(*   - the gap-continuity builder  (gen.audio/3.transcribe.py,             *)
(*     post_process_segments and its helpers),                             *)
(*   - the sound-window splitter   (gen.audio/6.timing.py,                 *)
(*     split_entry_into_sound_and_silence),                                *)
(*   - the entry normalizer        (gen.audio/6.timing.py,                 *)
(*     post_process_entries),                                              *)
(*   - the driver                  (gen.audio/6.timing.py,                 *)
(*     process_timing and parse_timing_response),                          *)
(*   - the renderer                (gen.audio/sfx.py,                      *)
(*     generate_all_sfx_batch and concatenate_audio_files),                *)
(*   - the workflow runner         (gen.audio/generate.py, main).          *)
(*                                                                         *)
(* Times and durations are exact fixed-point numbers: one second is Sec    *)
(* ticks.  Sec = 2^12 * 5^3, and every input is a multiple of 0.05 s, so   *)
(* each halving, each "* 0.1" and each "* position" the code performs on   *)
(* the inputs below is exact (the quotients have no remainder).            *)
(***************************************************************************)
EXTENDS Integers, Sequences, FiniteSets, TLC

VARIABLES
    \* ---- builder: post_process_segments -------------------------------
    b_pc,                 \* "idle" | "start" | "loop" | "final" | "done"
    segments,             \* the caller's list of segment dicts (mutable)
    segments_in,          \* the argument as it was when the call was made
    target_duration,      \* the target_duration argument
    continuous_segments,  \* the list under construction
    current_time,         \* the running clock
    b_i,                  \* loop index of "for i, segment in enumerate"
    b_result,             \* the returned list
    \* ---- splitter: split_entry_into_sound_and_silence -----------------
    s_pc,                 \* "idle" | "call" | "done"
    s_entry,              \* the entry argument
    timing_info,          \* the timing_info argument
    s_result,             \* the returned list
    \* ---- normalizer: post_process_entries -----------------------------
    n_pc,                 \* "idle" | "start" | "merge" | "adjust" | "done"
    heap,                 \* the dict objects: heap[id] = [seconds, description]
    entries,              \* the caller's list (object ids)
    entries_in,           \* the entries' values when the call was made
    merged_entries,       \* list of object ids
    current_silence,      \* object id, 0 for None
    n_k,                  \* index of the merge loop
    n_i,                  \* index of the adjust loop
    final_entries,        \* list of object ids
    n_result,             \* the returned list (object ids)
    \* ---- driver: process_timing ---------------------------------------
    p_pc,                 \* "idle" | "start" | "loop" | "handle" | "saving" | "done"
    timing_entries,       \* the parsed timing file, cut to min_lines by the start
    timing_parsed,        \* the parsed timing file as parse_timing_entries gave it
    timeline_len,         \* len(timeline_entries)
    p_i,                  \* index of "for i in range(len(timing_entries))"
    all_sfx_entries,      \* the flattened list under construction
    response,             \* what call_lm_studio_api did for the current entry
    p_timing_info,        \* the timing_info last passed to the splitter
    p_returned,           \* the value process_timing returned
    \* ---- renderer: generate_all_sfx_batch, concatenate_audio_files ----
    r_pc,                 \* "idle" | "batch" | "concat" | "done" | "failed"
    updated_entries,      \* the timeline entries given to the batch
    r_next,               \* number of tasks the pool has started
    r_running,            \* indices whose worker thread is running
    completed,            \* indices in the order as_completed yielded them
    generated_files,      \* the list of result dicts
    r_k,                  \* position of the concatenation loop
    final_audio,          \* the pieces joined so far
    \* ---- runner: generate.py main --------------------------------------
    g_pc,                 \* "idle" | "check" | "comfy" | "lms" | "run" | "after" | "done"
    existing,             \* the script files that exist in scripts/
    idx,                  \* index of "for idx, script in enumerate(SCRIPTS)"
    comfy_proc,           \* FALSE for None, TRUE for a Popen handle
    lmstudio_active,      \* the flag of main
    comfy_running,        \* a ComfyUI process started by the runner is alive
    lms_running,          \* the LM Studio server started by the runner is up
    code,                 \* exit code of the script just run
    scripts_run,          \* the scripts run so far, with their exit codes
    g_return              \* main's return value, -1 while main is running

bvars == <<b_pc, segments, segments_in, target_duration, continuous_segments,
           current_time, b_i, b_result>>
svars == <<s_pc, s_entry, timing_info, s_result>>
nvars == <<n_pc, heap, entries, entries_in, merged_entries, current_silence,
           n_k, n_i, final_entries, n_result>>
pvars == <<p_pc, timing_entries, timing_parsed, timeline_len, p_i,
           all_sfx_entries, response, p_timing_info, p_returned>>
rvars == <<r_pc, updated_entries, r_next, r_running, completed, generated_files,
           r_k, final_audio>>
gvars == <<g_pc, existing, idx, comfy_proc, lmstudio_active, comfy_running,
           lms_running, code, scripts_run, g_return>>
vars == <<bvars, svars, nvars, pvars, rvars, gvars>>

(***************************************************************************)
(* Arithmetic                                                              *)
(***************************************************************************)
Sec == 2*2*2*2 * 2*2*2*2 * 2*2*2*2 * 5*5*5      \* ticks per second

Min(a, b) == IF a <= b THEN a ELSE b
Max(a, b) == IF a >= b THEN a ELSE b
Half(x) == x \div 2               \* x / 2
Tenth(x) == x \div 10             \* x * 0.1
CeilDiv(a, b) == (a + b - 1) \div b

RECURSIVE GCD(_, _)
GCD(a, b) == IF b = 0 THEN a ELSE GCD(b, a % b)

RECURSIVE SumSeq(_)
SumSeq(s) == IF s = <<>> THEN 0 ELSE Head(s) + SumSeq(Tail(s))

Last(s) == s[Len(s)]

(***************************************************************************)
(* Bounds of the explored inputs                                           *)
(***************************************************************************)
MaxSegs == 3                      \* longest segment list given to the builder
MaxLen == 4                       \* longest entry list given to the normalizer

(***************************************************************************)
(* Builder (gen.audio/3.transcribe.py)                                     *)
(***************************************************************************)
EPSILON == Sec \div 10            \* 0.1 s: gaps up to this are left alone
GAP_EXTEND_THRESHOLD == 2 * Sec   \* 2.0 s: gaps below this are absorbed

RECURSIVE Dots(_)
Dots(n) == IF n = 0 THEN "" ELSE "." \o Dots(n - 1)

get_silence_text(duration) == Dots(Max(1, CeilDiv(duration, 2 * Sec)))

\* A slip that treats the leading gap like an interior one and pulls the
\* first segment back by half the gap only.
handle_initial_gap_half(segs, cont, time) ==
    LET segment == segs[1]
        initial_gap == segment.start
    IN  IF segment.start <= EPSILON
        THEN [segs |-> segs, cont |-> cont, time |-> time]
        ELSE IF initial_gap < GAP_EXTEND_THRESHOLD
        THEN [segs |-> [segs EXCEPT ![1].start = @ - Half(initial_gap)],
              cont |-> cont, time |-> time]
        ELSE [segs |-> segs,
              cont |-> Append(cont, [start |-> time, end |-> time + initial_gap,
                                     text |-> get_silence_text(initial_gap)]),
              time |-> time + initial_gap]

\* The three helpers return the new [segs, cont, time] triple.
handle_initial_gap(segs, cont, time) ==
    LET segment == segs[1]
        initial_gap == segment.start
    IN  IF segment.start <= EPSILON
        THEN [segs |-> segs, cont |-> cont, time |-> time]
        ELSE IF initial_gap < GAP_EXTEND_THRESHOLD
        THEN [segs |-> [segs EXCEPT ![1].start = @ - initial_gap],
              cont |-> cont, time |-> time]
        ELSE [segs |-> segs,
              cont |-> Append(cont, [start |-> time, end |-> time + initial_gap,
                                     text |-> get_silence_text(initial_gap)]),
              time |-> time + initial_gap]

\* A slip that absorbs a gap of exactly GAP_EXTEND_THRESHOLD too.
handle_segment_gap_inclusive(segs, i, cont, time) ==
    LET segment == segs[i]
        previous_segment == segs[i - 1]
        gap == segment.start - previous_segment.end
        extension == Half(gap)
    IN  IF gap <= EPSILON
        THEN [segs |-> segs, cont |-> cont, time |-> time]
        ELSE IF gap <= GAP_EXTEND_THRESHOLD
        THEN [segs |-> [segs EXCEPT ![i].start = @ - extension],
              cont |-> IF cont # <<>>
                       THEN [cont EXCEPT ![Len(cont)].end = @ + extension]
                       ELSE cont,
              time |-> IF cont # <<>> THEN time + extension ELSE time]
        ELSE [segs |-> segs,
              cont |-> Append(cont, [start |-> time, end |-> time + gap,
                                     text |-> get_silence_text(gap)]),
              time |-> time + gap]

handle_segment_gap(segs, i, cont, time) ==
    LET segment == segs[i]
        previous_segment == segs[i - 1]
        gap == segment.start - previous_segment.end
        extension == Half(gap)
    IN  IF gap <= EPSILON
        THEN [segs |-> segs, cont |-> cont, time |-> time]
        ELSE IF gap < GAP_EXTEND_THRESHOLD
        THEN [segs |-> [segs EXCEPT ![i].start = @ - extension],
              cont |-> IF cont # <<>>
                       THEN [cont EXCEPT ![Len(cont)].end = @ + extension]
                       ELSE cont,
              time |-> IF cont # <<>> THEN time + extension ELSE time]
        ELSE [segs |-> segs,
              cont |-> Append(cont, [start |-> time, end |-> time + gap,
                                     text |-> get_silence_text(gap)]),
              time |-> time + gap]

add_segment(segment, cont, time) ==
    LET segment_duration == segment.end - segment.start
    IN  [cont |-> Append(cont, [start |-> time, end |-> time + segment_duration,
                                text |-> segment.text]),
         time |-> time + segment_duration]

\* A variant that absorbs a short trailing gap into the last interval.
add_final_silence_absorbing(cont, time, target) ==
    LET final_silence == target - time
    IN  IF final_silence > EPSILON
        THEN IF final_silence < GAP_EXTEND_THRESHOLD
             THEN [cont EXCEPT ![Len(cont)].end = target]
             ELSE Append(cont, [start |-> time, end |-> target,
                                text |-> get_silence_text(final_silence)])
        ELSE cont

add_final_silence(cont, time, target) ==
    LET final_silence == target - time
    IN  IF final_silence > EPSILON
        THEN Append(cont, [start |-> time, end |-> target,
                           text |-> get_silence_text(final_silence)])
        ELSE cont

\* post_process_segments, lines 106-123: the two early returns hand back the
\* caller's own list; otherwise the loop starts with an empty timeline.
BStart ==
    /\ b_pc = "start"
    /\ IF segments = <<>>
       THEN /\ b_result' = segments
            /\ b_pc' = "done"
            /\ UNCHANGED <<continuous_segments, current_time, b_i>>
       ELSE LET current_duration == Last(segments).end - segments[1].start
                missing_duration == target_duration - current_duration
            IN  IF missing_duration <= 0
                THEN /\ b_result' = segments
                     /\ b_pc' = "done"
                     /\ UNCHANGED <<continuous_segments, current_time, b_i>>
                ELSE /\ continuous_segments' = <<>>
                     /\ current_time' = 0
                     /\ b_i' = 1
                     /\ b_pc' = "loop"
                     /\ UNCHANGED b_result
    /\ UNCHANGED <<segments, segments_in, target_duration>>
    /\ UNCHANGED <<svars, nvars, pvars, rvars, gvars>>

\* One iteration of the for loop, lines 125-133.
BLoop ==
    /\ b_pc = "loop"
    /\ b_i <= Len(segments)
    /\ LET g == IF b_i = 1
                THEN handle_initial_gap(segments, continuous_segments, current_time)
                ELSE handle_segment_gap(segments, b_i, continuous_segments, current_time)
           a == add_segment(g.segs[b_i], g.cont, g.time)
       IN  /\ segments' = g.segs
           /\ continuous_segments' = a.cont
           /\ current_time' = a.time
    /\ b_i' = b_i + 1
    /\ b_pc' = IF b_i = Len(segments) THEN "final" ELSE "loop"
    /\ UNCHANGED <<segments_in, target_duration, b_result>>
    /\ UNCHANGED <<svars, nvars, pvars, rvars, gvars>>

\* Lines 135-143.
BFinal ==
    /\ b_pc = "final"
    /\ continuous_segments' =
           add_final_silence(continuous_segments, current_time, target_duration)
    /\ b_result' = continuous_segments'
    /\ b_pc' = "done"
    /\ UNCHANGED <<segments, segments_in, target_duration, current_time, b_i>>
    /\ UNCHANGED <<svars, nvars, pvars, rvars, gvars>>

\* Inputs: a segment list is laid out by the gap in front of each segment and
\* the segment's length; a negative gap gives an overlapping or unsorted
\* list, a negative length a segment with end < start.
FirstGaps  == {0, Sec \div 20, Sec \div 10, Sec, 2 * Sec, 3 * Sec}
InnerGaps  == {-3 * Sec, 0, Sec \div 20, Sec \div 10, Sec, 2 * Sec, 3 * Sec}
SegLengths == {-(Sec \div 2), Sec}
TailGaps   == {-Sec, -(Sec \div 20), 0, Sec \div 20, Sec, 2 * Sec, 3 * Sec}
SegTexts   == <<"a", "b", "c", "d">>

RECURSIVE Layout(_, _, _)
Layout(gaps, lens, from) ==
    IF gaps = <<>> THEN <<>>
    ELSE LET st == from + Head(gaps)
             en == st + Head(lens)
         IN  <<[start |-> st, end |-> en]>> \o Layout(Tail(gaps), Tail(lens), en)

WithTexts(segs) ==
    [j \in 1..Len(segs) |-> [start |-> segs[j].start, end |-> segs[j].end,
                             text |-> SegTexts[j]]]

GapSeqs(n) == {g \in [1..n -> FirstGaps \cup InnerGaps] :
                   /\ n >= 1 => g[1] \in FirstGaps
                   /\ \A j \in 2..n : g[j] \in InnerGaps}

SegmentLists(n) ==
    {WithTexts(Layout(g, l, 0)) : g \in GapSeqs(n), l \in [1..n -> SegLengths]}

Targets(segs) ==
    {0, -Sec} \cup {(IF segs = <<>> THEN 0 ELSE Last(segs).end) + t : t \in TailGaps}

BIdle ==
    /\ b_pc = "idle"
    /\ segments = <<>>
    /\ segments_in = <<>>
    /\ target_duration = 0
    /\ continuous_segments = <<>>
    /\ current_time = 0
    /\ b_i = 0
    /\ b_result = <<>>

BInit ==
    /\ b_pc = "start"
    /\ \E n \in 0..MaxSegs : segments \in SegmentLists(n)
    /\ segments_in = segments
    /\ target_duration \in Targets(segments)
    /\ continuous_segments = <<>>
    /\ current_time = 0
    /\ b_i = 0
    /\ b_result = <<>>

SIdle ==
    /\ s_pc = "idle"
    /\ s_entry = [seconds |-> 0, description |-> ""]
    /\ timing_info = [duration |-> 0, position |-> 0]
    /\ s_result = <<>>

NIdle ==
    /\ n_pc = "idle"
    /\ heap = <<>>
    /\ entries = <<>>
    /\ entries_in = <<>>
    /\ merged_entries = <<>>
    /\ current_silence = 0
    /\ n_k = 0
    /\ n_i = 0
    /\ final_entries = <<>>
    /\ n_result = <<>>

\* No estimator response is held, and no timing_info was passed on.
NoResponse ==
    [raised |-> FALSE, json |-> FALSE, duration_numeric |-> FALSE, duration |-> 0,
     position_kind |-> "missing", position |-> 0, numbers |-> <<>>]
NoCall == [called |-> FALSE, duration |-> 0, position |-> 0]

PIdle ==
    /\ p_pc = "idle"
    /\ timing_entries = <<>>
    /\ timing_parsed = <<>>
    /\ timeline_len = 0
    /\ p_i = 0
    /\ all_sfx_entries = <<>>
    /\ response = NoResponse
    /\ p_timing_info = NoCall
    /\ p_returned = FALSE

RIdle ==
    /\ r_pc = "idle"
    /\ updated_entries = <<>>
    /\ r_next = 0
    /\ r_running = {}
    /\ completed = <<>>
    /\ generated_files = <<>>
    /\ r_k = 0
    /\ final_audio = <<>>

GIdle ==
    /\ g_pc = "idle"
    /\ existing = {}
    /\ idx = 0
    /\ comfy_proc = FALSE
    /\ lmstudio_active = FALSE
    /\ comfy_running = FALSE
    /\ lms_running = FALSE
    /\ code = 0
    /\ scripts_run = <<>>
    /\ g_return = -1

InitBuilder == BInit /\ SIdle /\ NIdle /\ PIdle /\ RIdle /\ GIdle
NextBuilder == BStart \/ BLoop \/ BFinal
SpecBuilder == InitBuilder /\ [][NextBuilder]_vars

(***************************************************************************)
(* Splitter (gen.audio/6.timing.py, lines 228-264)                         *)
(*                                                                         *)
(* position_float is a fixed-point fraction too: 1.0 is Sec.               *)
(***************************************************************************)
\* x * p for a fraction p, that is (x * p) \div Sec with the common factor of
\* p and Sec cancelled first.
Times(x, p) ==
    LET g == GCD(IF p < 0 THEN -p ELSE p, Sec)
    IN  (x * (p \div g)) \div (Sec \div g)

\* A slip that measures the position from the end of the window.
before_sound_mirrored(original_duration, sound_duration, position_float) ==
    Max(0, Times(original_duration - sound_duration, Sec - position_float))

before_sound_of(original_duration, sound_duration, position_float) ==
    Max(0, Times(original_duration - sound_duration, position_float))

\* A slip that forgets the leading silence when sizing the trailing one.
after_sound_ignoring_before(original_duration, sound_duration, before_sound) ==
    Max(0, original_duration - sound_duration)

after_sound_of(original_duration, sound_duration, before_sound) ==
    Max(0, original_duration - sound_duration - before_sound)

split_entry_into_sound_and_silence(entry, info) ==
    LET original_duration == entry.seconds
        realistic_duration == info.duration
        position_float == info.position
        sound_duration == Min(realistic_duration, original_duration)
        before_sound == before_sound_of(original_duration, sound_duration, position_float)
        after_sound == after_sound_of(original_duration, sound_duration, before_sound)
    IN  (IF before_sound > 0
         THEN <<[seconds |-> before_sound, description |-> "Silence"]>> ELSE <<>>)
        \o
        (IF sound_duration > 0
         THEN <<[seconds |-> sound_duration, description |-> entry.description]>> ELSE <<>>)
        \o
        (IF after_sound > 0
         THEN <<[seconds |-> after_sound, description |-> "Silence"]>> ELSE <<>>)

SCall ==
    /\ s_pc = "call"
    /\ s_result' = split_entry_into_sound_and_silence(s_entry, timing_info)
    /\ s_pc' = "done"
    /\ UNCHANGED <<s_entry, timing_info>>
    /\ UNCHANGED <<bvars, nvars, pvars, rvars, gvars>>

SplitSeconds   == {Sec \div 2, Sec, 2 * Sec, 5 * Sec}
SplitRealistic == {-Sec, 0, Sec \div 2, Sec, 2 * Sec, 10 * Sec}
SplitPositions == {-(Sec \div 2), 0, Sec \div 4, Sec \div 2, 3 * (Sec \div 4), Sec,
                   3 * (Sec \div 2)}
Descriptions   == {"rain", "click"}

SInit ==
    /\ s_pc = "call"
    /\ s_entry \in [seconds : SplitSeconds, description : Descriptions]
    /\ timing_info \in [duration : SplitRealistic, position : SplitPositions]
    /\ s_result = <<>>

InitSplitter == SInit /\ BIdle /\ NIdle /\ PIdle /\ RIdle /\ GIdle
NextSplitter == SCall
SpecSplitter == InitSplitter /\ [][NextSplitter]_vars

(***************************************************************************)
(* Normalizer (gen.audio/6.timing.py, lines 266-368)                       *)
(*                                                                         *)
(* The entries are Python dicts, shared by reference between the caller's  *)
(* list, merged_entries and final_entries: heap holds the dicts, the lists *)
(* hold their ids.  entry.copy() allocates a new dict at the end of heap.  *)
(***************************************************************************)
MIN_DUR == Sec                    \* the literal 1.0 of step 2

Values(ids) == [j \in 1..Len(ids) |-> heap[ids[j]]]
SecondsOf(es) == [j \in 1..Len(es) |-> es[j].seconds]

\* Lines 268-275.
NStart ==
    /\ n_pc = "start"
    /\ IF entries = <<>>
       THEN /\ n_result' = entries
            /\ n_pc' = "done"
            /\ UNCHANGED n_k
       ELSE /\ n_pc' = "merge"
            /\ n_k' = 1
            /\ UNCHANGED n_result
    /\ merged_entries' = <<>>
    /\ current_silence' = 0
    /\ UNCHANGED <<heap, entries, entries_in, n_i, final_entries>>
    /\ UNCHANGED <<bvars, svars, pvars, rvars, gvars>>

\* A slip that emits the sound before the silence accumulated in front of it.
append_then_flush(merged, pending, entry) ==
    <<entry>> \o (IF pending # 0 THEN Append(merged, pending) ELSE merged)

\* Lines 285-289: a non-Silence entry flushes the pending silence, then is
\* appended itself.
flush_then_append(merged, pending, entry) ==
    (IF pending # 0 THEN Append(merged, pending) ELSE merged) \o <<entry>>

\* One iteration of the step-1 loop, lines 277-289.
NMerge ==
    /\ n_pc = "merge"
    /\ n_k <= Len(entries)
    /\ LET entry == entries[n_k]
       IN  IF heap[entry].description = "Silence"
           THEN IF current_silence = 0
                THEN /\ heap' = Append(heap, heap[entry])
                     /\ current_silence' = Len(heap) + 1
                     /\ UNCHANGED merged_entries
                ELSE /\ heap' = [heap EXCEPT ![current_silence].seconds =
                                                 @ + heap[entry].seconds]
                     /\ UNCHANGED <<current_silence, merged_entries>>
           ELSE /\ merged_entries' =
                       flush_then_append(merged_entries, current_silence, entry)
                /\ current_silence' = 0
                /\ UNCHANGED heap
    /\ n_k' = n_k + 1
    /\ UNCHANGED <<n_pc, entries, entries_in, n_i, final_entries, n_result>>
    /\ UNCHANGED <<bvars, svars, pvars, rvars, gvars>>

\* Lines 291-298: flush the pending silence, start step 2.
NMergeEnd ==
    /\ n_pc = "merge"
    /\ n_k > Len(entries)
    /\ merged_entries' = IF current_silence # 0
                         THEN Append(merged_entries, current_silence)
                         ELSE merged_entries
    /\ final_entries' = <<>>
    /\ n_i' = 1
    /\ n_pc' = "adjust"
    /\ UNCHANGED <<heap, entries, entries_in, current_silence, n_k, n_result>>
    /\ UNCHANGED <<bvars, svars, pvars, rvars, gvars>>

\* A slip that treats an entry of exactly MIN_DUR as short.
is_short_inclusive(seconds) == seconds <= MIN_DUR

is_short(seconds) == seconds < MIN_DUR

\* A slip that tests the label the wrong way round, so nothing is demoted.
convert_short_sound_inverted(h, id) ==
    IF is_short(h[id].seconds) /\ h[id].description = "Silence"
    THEN [h EXCEPT ![id].description = "Silence"]
    ELSE h

\* Lines 300-303.
convert_short_sound(h, id) ==
    IF is_short(h[id].seconds) /\ h[id].description # "Silence"
    THEN [h EXCEPT ![id].description = "Silence"]
    ELSE h

\* A slip that leaves out the "don't make it < 1s" correction.
available_uncapped(h, m, j, needed_duration) ==
    IF j >= 1 /\ j <= Len(m) /\ h[m[j]].seconds > MIN_DUR
    THEN Min(Tenth(h[m[j]].seconds), Half(needed_duration))
    ELSE 0

\* Lines 314-319 and 322-327: what the neighbour at position j can lend.
available(h, m, j, needed_duration) ==
    IF j >= 1 /\ j <= Len(m) /\ h[m[j]].seconds > MIN_DUR
    THEN LET a == Min(Tenth(h[m[j]].seconds), Half(needed_duration))
         IN  IF h[m[j]].seconds - a < MIN_DUR
             THEN Max(0, h[m[j]].seconds - MIN_DUR)
             ELSE a
    ELSE 0

\* Lines 333-345.
distribute(h, m, i) ==
    LET distribute_amount == Half(h[m[i]].seconds)
        h1 == IF i > 1
              THEN [h EXCEPT ![m[i-1]].seconds = @ + distribute_amount] ELSE h
        h2 == IF i < Len(m)
              THEN [h1 EXCEPT ![m[i+1]].seconds = @ + distribute_amount] ELSE h1
    IN  [h2 EXCEPT ![m[i]].seconds = 0]

\* A slip that takes from both neighbours but credits the entry with the
\* previous neighbour's amount only.
borrow_forgetting_next(h, m, i, prev_available, next_available) ==
    LET h1 == IF prev_available > 0
              THEN [h EXCEPT ![m[i-1]].seconds = @ - prev_available] ELSE h
        h2 == IF next_available > 0
              THEN [h1 EXCEPT ![m[i+1]].seconds = @ - next_available] ELSE h1
    IN  [h2 EXCEPT ![m[i]].seconds = @ + prev_available]

\* Lines 349-359.
borrow(h, m, i, prev_available, next_available) ==
    LET h1 == IF prev_available > 0
              THEN [h EXCEPT ![m[i-1]].seconds = @ - prev_available] ELSE h
        h2 == IF next_available > 0
              THEN [h1 EXCEPT ![m[i+1]].seconds = @ - next_available] ELSE h1
    IN  [h2 EXCEPT ![m[i]].seconds = @ + prev_available + next_available]

\* A slip that is content with half of the shortfall.
adjust_short_silence_half_goal(h, m, i) ==
    IF is_short(h[m[i]].seconds) /\ h[m[i]].description = "Silence"
    THEN LET target == MIN_DUR
             needed_duration == target - h[m[i]].seconds
             prev_available == available(h, m, i - 1, needed_duration)
             next_available == available(h, m, i + 1, needed_duration)
         IN  IF prev_available + next_available < Half(needed_duration)
             THEN distribute(h, m, i)
             ELSE borrow(h, m, i, prev_available, next_available)
    ELSE h

\* Lines 306-360.
adjust_short_silence(h, m, i) ==
    IF is_short(h[m[i]].seconds) /\ h[m[i]].description = "Silence"
    THEN LET target == MIN_DUR
             needed_duration == target - h[m[i]].seconds
             prev_available == available(h, m, i - 1, needed_duration)
             next_available == available(h, m, i + 1, needed_duration)
         IN  IF prev_available + next_available < needed_duration
             THEN distribute(h, m, i)
             ELSE borrow(h, m, i, prev_available, next_available)
    ELSE h

\* A slip that steps over every other entry.
next_index_skipping(i) == i + 2

\* Line 299: enumerate(merged_entries) goes on to the next position.
next_index(i) == i + 1

\* One iteration of the step-2 loop, lines 299-362.
NAdjust ==
    /\ n_pc = "adjust"
    /\ n_i <= Len(merged_entries)
    /\ heap' = adjust_short_silence(convert_short_sound(heap, merged_entries[n_i]),
                                    merged_entries, n_i)
    /\ final_entries' = Append(final_entries, merged_entries[n_i])
    /\ n_i' = next_index(n_i)
    /\ UNCHANGED <<n_pc, entries, entries_in, merged_entries, current_silence,
                   n_k, n_result>>
    /\ UNCHANGED <<bvars, svars, pvars, rvars, gvars>>

\* Lines 364-368.
NFilter ==
    /\ n_pc = "adjust"
    /\ n_i > Len(merged_entries)
    /\ final_entries' = SelectSeq(final_entries, LAMBDA id : heap[id].seconds > 0)
    /\ n_result' = final_entries'
    /\ n_pc' = "done"
    /\ UNCHANGED <<heap, entries, entries_in, merged_entries, current_silence,
                   n_k, n_i>>
    /\ UNCHANGED <<bvars, svars, pvars, rvars, gvars>>

EntrySeconds == {2 * (Sec \div 5), 4 * (Sec \div 5), Sec, Sec + Sec \div 20, 5 * Sec}
EntryDescriptions == {"Silence", "rain"}
EntryLists ==
    UNION {[1..n -> [seconds : EntrySeconds, description : EntryDescriptions]]
           : n \in 0..MaxLen}

NInit ==
    /\ n_pc = "start"
    /\ heap \in EntryLists
    /\ entries = [j \in 1..Len(heap) |-> j]
    /\ entries_in = heap
    /\ merged_entries = <<>>
    /\ current_silence = 0
    /\ n_k = 0
    /\ n_i = 0
    /\ final_entries = <<>>
    /\ n_result = <<>>

InitNormalizer == NInit /\ BIdle /\ SIdle /\ PIdle /\ RIdle /\ GIdle
NextNormalizer == NStart \/ NMerge \/ NMergeEnd \/ NAdjust \/ NFilter
SpecNormalizer == InitNormalizer /\ [][NextNormalizer]_vars

(***************************************************************************)
(* Driver (gen.audio/6.timing.py, process_timing, lines 387-494)           *)
(*                                                                         *)
(* The estimator is the language model behind call_lm_studio_api: the call *)
(* either raises or returns a text.  Of the text the model keeps what      *)
(* parse_timing_response reads from it: whether its brace region is a JSON *)
(* object with the key realistic_duration_seconds, that key's value, the   *)
(* value of position_float, and the numbers re.findall finds in the text.  *)
(***************************************************************************)
MaxLines == 2                     \* longest timing file given to the driver

Raised ==
    [raised |-> TRUE, json |-> FALSE, duration_numeric |-> FALSE, duration |-> 0,
     position_kind |-> "missing", position |-> 0, numbers |-> <<>>]
Text(numbers) ==
    [raised |-> FALSE, json |-> FALSE, duration_numeric |-> FALSE, duration |-> 0,
     position_kind |-> "missing", position |-> 0, numbers |-> numbers]
Json(duration_numeric, duration, position_kind, position, numbers) ==
    [raised |-> FALSE, json |-> TRUE, duration_numeric |-> duration_numeric,
     duration |-> duration, position_kind |-> position_kind,
     position |-> position, numbers |-> numbers]

ResponseDurations == {0, Sec \div 2, 10 * Sec}
ResponsePositions == {Sec \div 4, 3 * (Sec \div 2)}
ResponseNumbers   == {<<>>, <<0>>, <<Sec>>}

\* A JSON number in the text is also a number for re.findall.
Responses ==
    {Raised}
    \cup {Text(ns) : ns \in ResponseNumbers}
    \cup {Json(TRUE, d, "number", q, ns) :
              d \in ResponseDurations, q \in ResponsePositions,
              ns \in ResponseNumbers \ {<<>>}}
    \cup {Json(TRUE, d, k, 0, ns) :
              d \in ResponseDurations, k \in {"missing", "other"},
              ns \in ResponseNumbers \ {<<>>}}
    \cup {Json(FALSE, 0, "number", q, ns) :
              q \in ResponsePositions, ns \in ResponseNumbers \ {<<>>}}
    \cup {Json(FALSE, 0, k, 0, ns) :
              k \in {"missing", "other"}, ns \in ResponseNumbers}

\* Lines 184-226.  ok = FALSE is the None the function returns.
parse_timing_response(r) ==
    IF /\ r.json
       /\ r.duration_numeric /\ r.duration > 0
       /\ r.position_kind # "other"
    THEN [ok |-> TRUE, duration |-> r.duration,
          position |-> IF r.position_kind = "missing" THEN Sec \div 2 ELSE r.position]
    ELSE IF r.numbers # <<>>
    THEN [ok |-> TRUE, duration |-> Head(r.numbers), position |-> Sec \div 2]
    ELSE [ok |-> FALSE, duration |-> 0, position |-> 0]

\* Lines 451-454: "30% of original", in the middle.
default_timing_info(timing_entry) ==
    [duration |-> Times(timing_entry.seconds, 3 * (Sec \div 10)),
     position |-> Sec \div 2]

\* A slip that gives up on the entry whose estimate failed.
error_entry_skipped(timing_entry) == <<>>

\* Lines 474-477: the entry is kept whole when the try block raised.
error_entry(timing_entry) ==
    <<[seconds |-> timing_entry.seconds, description |-> timing_entry.description]>>

\* Line 427: description.lower().strip(), on the descriptions used here.
lower_strip(description) ==
    IF description \in {"Silence", "SILENCE"} THEN "silence" ELSE description

\* Lines 400-419.
PStart ==
    /\ p_pc = "start"
    /\ IF timing_entries = <<>> \/ timeline_len = 0
       THEN /\ p_pc' = "done"
            /\ p_returned' = FALSE
            /\ UNCHANGED <<timing_entries, timeline_len, p_i>>
       ELSE LET min_lines == Min(Len(timing_entries), timeline_len)
            IN  /\ timing_entries' = SubSeq(timing_entries, 1, min_lines)
                /\ timeline_len' = min_lines
                /\ p_i' = 1
                /\ p_pc' = "loop"
                /\ UNCHANGED p_returned
    /\ all_sfx_entries' = <<>>
    /\ UNCHANGED <<timing_parsed, response, p_timing_info>>
    /\ UNCHANGED <<bvars, svars, nvars, rvars, gvars>>

\* Lines 422-433: a silence line is passed on under the canonical label.
PSilence ==
    /\ p_pc = "loop"
    /\ p_i <= Len(timing_entries)
    /\ lower_strip(timing_entries[p_i].description) = "silence"
    /\ all_sfx_entries' = Append(all_sfx_entries,
            [seconds |-> timing_entries[p_i].seconds, description |-> "Silence"])
    /\ p_i' = p_i + 1
    /\ UNCHANGED <<p_pc, timing_entries, timing_parsed, timeline_len, response,
                   p_timing_info, p_returned>>
    /\ UNCHANGED <<bvars, svars, nvars, rvars, gvars>>

\* Lines 440-445: the estimator is asked about a sound line.
PCall ==
    /\ p_pc = "loop"
    /\ p_i <= Len(timing_entries)
    /\ lower_strip(timing_entries[p_i].description) # "silence"
    /\ response' \in Responses
    /\ p_pc' = "handle"
    /\ UNCHANGED <<timing_entries, timing_parsed, timeline_len, p_i,
                   all_sfx_entries, p_timing_info, p_returned>>
    /\ UNCHANGED <<bvars, svars, nvars, rvars, gvars>>

\* Lines 447-481: parse, default, split and append; or the except branch.
PHandle ==
    /\ p_pc = "handle"
    /\ LET timing_entry == timing_entries[p_i]
       IN  IF response.raised
           THEN /\ all_sfx_entries' = all_sfx_entries \o error_entry(timing_entry)
                /\ p_timing_info' = NoCall
           ELSE LET parsed == parse_timing_response(response)
                    info == IF parsed.ok
                            THEN [duration |-> parsed.duration,
                                  position |-> parsed.position]
                            ELSE default_timing_info(timing_entry)
                IN  /\ all_sfx_entries' = all_sfx_entries \o
                           split_entry_into_sound_and_silence(timing_entry, info)
                    /\ p_timing_info' = [called |-> TRUE, duration |-> info.duration,
                                         position |-> info.position]
    /\ p_i' = p_i + 1
    /\ p_pc' = "loop"
    /\ UNCHANGED <<timing_entries, timing_parsed, timeline_len, response, p_returned>>
    /\ UNCHANGED <<bvars, svars, nvars, rvars, gvars>>

\* Lines 484-486 and 374: save_sfx_to_file hands the list to the normalizer,
\* whose entries are the dicts of all_sfx_entries themselves.
PSave ==
    /\ p_pc = "loop"
    /\ p_i > Len(timing_entries)
    /\ p_pc' = "saving"
    /\ n_pc' = "start"
    /\ heap' = all_sfx_entries
    /\ entries' = [j \in 1..Len(all_sfx_entries) |-> j]
    /\ entries_in' = all_sfx_entries
    /\ UNCHANGED <<merged_entries, current_silence, n_k, n_i, final_entries, n_result>>
    /\ UNCHANGED <<timing_entries, timing_parsed, timeline_len, p_i, all_sfx_entries,
                   response, p_timing_info, p_returned>>
    /\ UNCHANGED <<bvars, svars, rvars, gvars>>

\* Lines 376-385 and 487-494: the file is written, or the write raises and
\* process_timing returns False.  The text of the file is not modelled.
PReturn ==
    /\ p_pc = "saving"
    /\ n_pc = "done"
    /\ p_pc' = "done"
    /\ p_returned' \in BOOLEAN
    /\ UNCHANGED <<timing_entries, timing_parsed, timeline_len, p_i, all_sfx_entries,
                   response, p_timing_info>>
    /\ UNCHANGED <<bvars, svars, nvars, rvars, gvars>>

TimingSeconds == {Sec, 2 * Sec}
TimingLines ==
    [seconds : TimingSeconds, description : {"Silence", "rain"}]
    \cup {[seconds |-> Sec, description |-> "SILENCE"]}
TimingFiles == UNION {[1..n -> TimingLines] : n \in 0..MaxLines}

PInit ==
    /\ p_pc = "start"
    /\ timing_entries \in TimingFiles
    /\ timing_parsed = timing_entries
    /\ timeline_len \in 0..MaxLines
    /\ p_i = 0
    /\ all_sfx_entries = <<>>
    /\ response = NoResponse
    /\ p_timing_info = NoCall
    /\ p_returned = FALSE

InitTiming == PInit /\ BIdle /\ SIdle /\ NIdle /\ RIdle /\ GIdle
NextTiming ==
    \/ PStart \/ PSilence \/ PCall \/ PHandle \/ PSave \/ PReturn
    \/ NStart \/ NMerge \/ NMergeEnd \/ NAdjust \/ NFilter
SpecTiming == InitTiming /\ [][NextTiming]_vars

(***************************************************************************)
(* Renderer (gen.audio/sfx.py, generate_all_sfx_batch and                  *)
(* concatenate_audio_files, lines 194-310)                                 *)
(*                                                                         *)
(* The pool starts the tasks in submission order, at most max_workers at   *)
(* a time; the running workers finish in any order, and the main thread    *)
(* appends each result as as_completed yields it.  Indices are those of    *)
(* enumerate, from 0.                                                      *)
(***************************************************************************)
MaxEntries == 4                   \* longest timeline given to the renderer
max_workers == 3                  \* DirectTimelineProcessor(max_workers=3)

\* Lines 167-173, on the descriptions used here.
is_silence_entry(description) == description \in {"Silence", "silence"}

\* Lines 194-261: the result dict of entry i, or <<>> for None.  produced
\* says whether pydub / ComfyUI delivered the file.
generate_single_sfx(i, entry, produced) ==
    IF entry.seconds <= 0 THEN <<>>
    ELSE IF produced
    THEN <<[order_index |-> i, duration |-> entry.seconds,
            description |-> entry.description]>>
    ELSE <<>>

\* list.sort(key=order_index) is a stable sort: insertion from the left,
\* an element going behind the elements that are not greater.
RECURSIVE insert_by_order_index(_, _)
insert_by_order_index(x, sorted) ==
    IF sorted = <<>> THEN <<x>>
    ELSE IF Head(sorted).order_index <= x.order_index
    THEN <<Head(sorted)>> \o insert_by_order_index(x, Tail(sorted))
    ELSE <<x>> \o sorted

RECURSIVE sort_from(_, _)
sort_from(files, sorted) ==
    IF files = <<>> THEN sorted
    ELSE sort_from(Tail(files), insert_by_order_index(Head(files), sorted))

\* A slip that joins the files in the order the workers delivered them.
sort_skipped(files) == files

\* Line 287.
sort_by_order_index(files) == sort_from(files, <<>>)

\* Lines 274-275: an idle worker takes the next submitted task.
RStart ==
    /\ r_pc = "batch"
    /\ r_next < Len(updated_entries)
    /\ Cardinality(r_running) < max_workers
    /\ r_running' = r_running \cup {r_next}
    /\ r_next' = r_next + 1
    /\ UNCHANGED <<r_pc, updated_entries, completed, generated_files, r_k, final_audio>>
    /\ UNCHANGED <<bvars, svars, nvars, pvars, gvars>>

\* Lines 276-279: some running worker finishes and its result, unless it
\* is None, is appended.
RComplete ==
    /\ r_pc = "batch"
    /\ \E i \in r_running : \E produced \in BOOLEAN :
           /\ r_running' = r_running \ {i}
           /\ completed' = Append(completed, i)
           /\ generated_files' = generated_files \o
                  generate_single_sfx(i, updated_entries[i + 1], produced)
    /\ UNCHANGED <<r_pc, updated_entries, r_next, r_k, final_audio>>
    /\ UNCHANGED <<bvars, svars, nvars, pvars, gvars>>

\* Lines 281, 343-345 and 285-290: the batch returns; with no file at all
\* process_timeline raises, otherwise concatenate_audio_files sorts the
\* list in place and starts from an empty audio.
RSort ==
    /\ r_pc = "batch"
    /\ r_next = Len(updated_entries)
    /\ r_running = {}
    /\ IF generated_files = <<>>
       THEN /\ r_pc' = "failed"
            /\ UNCHANGED <<generated_files, r_k>>
       ELSE /\ generated_files' = sort_by_order_index(generated_files)
            /\ r_k' = 1
            /\ r_pc' = "concat"
    /\ final_audio' = <<>>
    /\ UNCHANGED <<updated_entries, r_next, r_running, completed>>
    /\ UNCHANGED <<bvars, svars, nvars, pvars, gvars>>

\* Lines 292-303: the next file is loaded and joined, or skipped when
\* loading it raises.
RJoin ==
    /\ r_pc = "concat"
    /\ r_k <= Len(generated_files)
    /\ \E loaded \in BOOLEAN :
           final_audio' = IF loaded
                          THEN Append(final_audio, generated_files[r_k])
                          ELSE final_audio
    /\ r_k' = r_k + 1
    /\ UNCHANGED <<r_pc, updated_entries, r_next, r_running, completed, generated_files>>
    /\ UNCHANGED <<bvars, svars, nvars, pvars, gvars>>

\* Lines 305-310.
RExport ==
    /\ r_pc = "concat"
    /\ r_k > Len(generated_files)
    /\ r_pc' = "done"
    /\ UNCHANGED <<updated_entries, r_next, r_running, completed, generated_files,
                   r_k, final_audio>>
    /\ UNCHANGED <<bvars, svars, nvars, pvars, gvars>>

RenderLines ==
    {[seconds |-> Sec, description |-> "Silence"],
     [seconds |-> Sec, description |-> "rain"],
     [seconds |-> 0, description |-> "rain"]}

RInit ==
    /\ r_pc = "batch"
    /\ \E n \in 1..MaxEntries : updated_entries \in [1..n -> RenderLines]
    /\ r_next = 0
    /\ r_running = {}
    /\ completed = <<>>
    /\ generated_files = <<>>
    /\ r_k = 0
    /\ final_audio = <<>>

InitRender == RInit /\ BIdle /\ SIdle /\ NIdle /\ PIdle /\ GIdle
NextRender == RStart \/ RComplete \/ RSort \/ RJoin \/ RExport
SpecRender == InitRender /\ [][NextRender]_vars

(***************************************************************************)
(* Workflow runner (gen.audio/generate.py, main, lines 274-377)            *)
(*                                                                         *)
(* comfy_proc and lmstudio_active are main's own bookkeeping;              *)
(* comfy_running and lms_running say whether a backend that main started   *)
(* has not been handed to stop_comfyui / stop_lmstudio yet.  idx counts    *)
(* from 1.                                                                 *)
(***************************************************************************)
SCRIPTS ==
    <<"1.character.py", "2.story.py", "3.transcribe.py", "4.quality.py",
      "5.timeline.py", "6.timing.py", "7.sfx.py", "8.combine.py">>
NEEDS_COMFYUI == {"2.story.py", "7.sfx.py"}
NEEDS_LMSTUDIO == {"5.timeline.py", "6.timing.py"}
ExitCodes == {0, 1, 2}            \* what a script can exit with

\* "if comfy_proc is not None: stop_comfyui(...)" followed by
\* "if lmstudio_active: stop_lmstudio(...)", lines 292-295 and 365-368.
stop_services(c_proc, l_active, c_running, l_running) ==
    [comfy_running |-> IF c_proc THEN FALSE ELSE c_running,
     lms_running |-> IF l_active THEN FALSE ELSE l_running]

\* A slip that forgets LM Studio when a script has failed.
stop_on_error_comfy_only(c_proc, l_active, c_running, l_running) ==
    [comfy_running |-> IF c_proc THEN FALSE ELSE c_running,
     lms_running |-> l_running]

\* Lines 351-358.
stop_on_error(c_proc, l_active, c_running, l_running) ==
    [comfy_running |-> IF c_proc THEN FALSE ELSE c_running,
     lms_running |-> IF l_active THEN FALSE ELSE l_running]

\* Lines 286-297: a missing script file ends the run.
GCheck ==
    /\ g_pc = "check"
    /\ idx <= Len(SCRIPTS)
    /\ IF SCRIPTS[idx] \notin existing
       THEN LET r == stop_services(comfy_proc, lmstudio_active,
                                   comfy_running, lms_running)
            IN  /\ comfy_running' = r.comfy_running
                /\ lms_running' = r.lms_running
                /\ g_return' = 1
                /\ g_pc' = "done"
       ELSE /\ g_pc' = "comfy"
            /\ UNCHANGED <<comfy_running, lms_running, g_return>>
    /\ UNCHANGED <<existing, idx, comfy_proc, lmstudio_active, code, scripts_run>>
    /\ UNCHANGED <<bvars, svars, nvars, pvars, rvars>>

\* Lines 299-311: ComfyUI is started if the script needs it and it is not
\* held already; start_comfyui may return None.
GStartComfy ==
    /\ g_pc = "comfy"
    /\ IF SCRIPTS[idx] \in NEEDS_COMFYUI /\ ~comfy_proc
       THEN \E started \in BOOLEAN :
               IF started
               THEN /\ comfy_proc' = TRUE
                    /\ comfy_running' = TRUE
                    /\ g_pc' = "lms"
                    /\ UNCHANGED <<lms_running, g_return>>
               ELSE /\ lms_running' = IF lmstudio_active THEN FALSE ELSE lms_running
                    /\ g_return' = 1
                    /\ g_pc' = "done"
                    /\ UNCHANGED <<comfy_proc, comfy_running>>
       ELSE /\ g_pc' = "lms"
            /\ UNCHANGED <<comfy_proc, comfy_running, lms_running, g_return>>
    /\ UNCHANGED <<existing, idx, lmstudio_active, code, scripts_run>>
    /\ UNCHANGED <<bvars, svars, nvars, pvars, rvars>>

\* Lines 313-324: the same for LM Studio; start_lmstudio may return False.
GStartLms ==
    /\ g_pc = "lms"
    /\ IF SCRIPTS[idx] \in NEEDS_LMSTUDIO /\ ~lmstudio_active
       THEN \E lms_ok \in BOOLEAN :
               IF lms_ok
               THEN /\ lmstudio_active' = TRUE
                    /\ lms_running' = TRUE
                    /\ g_pc' = "run"
                    /\ UNCHANGED <<comfy_running, g_return>>
               ELSE /\ comfy_running' = IF comfy_proc THEN FALSE ELSE comfy_running
                    /\ g_return' = 1
                    /\ g_pc' = "done"
                    /\ UNCHANGED <<lmstudio_active, lms_running>>
       ELSE /\ g_pc' = "run"
            /\ UNCHANGED <<lmstudio_active, lms_running, comfy_running, g_return>>
    /\ UNCHANGED <<existing, idx, comfy_proc, code, scripts_run>>
    /\ UNCHANGED <<bvars, svars, nvars, pvars, rvars>>

\* Lines 326-332: the script runs and exits with some code.
GRun ==
    /\ g_pc = "run"
    /\ code' \in ExitCodes
    /\ scripts_run' = Append(scripts_run, [script |-> SCRIPTS[idx], code |-> code'])
    /\ g_pc' = "after"
    /\ UNCHANGED <<existing, idx, comfy_proc, lmstudio_active, comfy_running,
                   lms_running, g_return>>
    /\ UNCHANGED <<bvars, svars, nvars, pvars, rvars>>

\* Lines 334-362: services the next script does not need are stopped; a
\* non-zero exit code then stops what is left and ends the run.
GAfter ==
    /\ g_pc = "after"
    /\ LET script == SCRIPTS[idx]
           next_needs_comfy == idx + 1 <= Len(SCRIPTS) /\ SCRIPTS[idx + 1] \in NEEDS_COMFYUI
           next_needs_lms == idx + 1 <= Len(SCRIPTS) /\ SCRIPTS[idx + 1] \in NEEDS_LMSTUDIO
           stop_comfy == script \in NEEDS_COMFYUI /\ ~next_needs_comfy /\ comfy_proc
           stop_lms == script \in NEEDS_LMSTUDIO /\ ~next_needs_lms /\ lmstudio_active
           c_proc == IF stop_comfy THEN FALSE ELSE comfy_proc
           c_running == IF stop_comfy THEN FALSE ELSE comfy_running
           l_active == IF stop_lms THEN FALSE ELSE lmstudio_active
           l_running == IF stop_lms THEN FALSE ELSE lms_running
       IN  IF code # 0
           THEN LET r == stop_on_error(c_proc, l_active, c_running, l_running)
                IN  /\ comfy_proc' = FALSE
                    /\ lmstudio_active' = FALSE
                    /\ comfy_running' = r.comfy_running
                    /\ lms_running' = r.lms_running
                    /\ g_return' = code
                    /\ g_pc' = "done"
                    /\ UNCHANGED idx
           ELSE /\ comfy_proc' = c_proc
                /\ lmstudio_active' = l_active
                /\ comfy_running' = c_running
                /\ lms_running' = l_running
                /\ idx' = idx + 1
                /\ g_pc' = "check"
                /\ UNCHANGED g_return
    /\ UNCHANGED <<existing, code, scripts_run>>
    /\ UNCHANGED <<bvars, svars, nvars, pvars, rvars>>

\* Lines 364-377: after the last script.
GFinish ==
    /\ g_pc = "check"
    /\ idx > Len(SCRIPTS)
    /\ LET r == stop_services(comfy_proc, lmstudio_active, comfy_running, lms_running)
       IN  /\ comfy_running' = r.comfy_running
           /\ lms_running' = r.lms_running
    /\ g_return' = 0
    /\ g_pc' = "done"
    /\ UNCHANGED <<existing, idx, comfy_proc, lmstudio_active, code, scripts_run>>
    /\ UNCHANGED <<bvars, svars, nvars, pvars, rvars>>

GInit ==
    /\ g_pc = "check"
    /\ existing \in SUBSET {SCRIPTS[j] : j \in 1..Len(SCRIPTS)}
    /\ idx = 1
    /\ comfy_proc = FALSE
    /\ lmstudio_active = FALSE
    /\ comfy_running = FALSE
    /\ lms_running = FALSE
    /\ code = 0
    /\ scripts_run = <<>>
    /\ g_return = -1

InitRunner == GInit /\ BIdle /\ SIdle /\ NIdle /\ PIdle /\ RIdle
NextRunner == GCheck \/ GStartComfy \/ GStartLms \/ GRun \/ GAfter \/ GFinish
SpecRunner == InitRunner /\ [][NextRunner]_vars

(***************************************************************************)
(* Properties of the builder                                               *)
(***************************************************************************)
SortedByStart(segs) == \A j \in 1..(Len(segs) - 1) : segs[j].start <= segs[j+1].start
NonOverlapping(segs) == \A j \in 1..(Len(segs) - 1) : segs[j].end <= segs[j+1].start
EndsAfterStarts(segs) == \A j \in 1..Len(segs) : segs[j].end >= segs[j].start
ValidBuilderInput ==
    /\ segments_in # <<>>
    /\ SortedByStart(segments_in)
    /\ NonOverlapping(segments_in)
    /\ EndsAfterStarts(segments_in)
    /\ target_duration > 0
Contiguous(tl) ==
    /\ tl[1].start = 0
    /\ \A j \in 1..(Len(tl) - 1) : tl[j].end = tl[j+1].start
Durations(tl) == [j \in 1..Len(tl) |-> tl[j].end - tl[j].start]

\* C1: for every non-empty, sorted, non-overlapping segment list with
\* end >= start and every target_duration > 0, the list returned by
\* post_process_segments starts at 0 and each interval ends where the next
\* one starts.
C1_BuilderContiguity ==
    (b_pc = "done" /\ ValidBuilderInput) => Contiguous(b_result)

\* C2: for every valid input whose target_duration is at least the last
\* segment's end, the last returned interval ends exactly at target_duration
\* and the returned durations sum to target_duration.
C2_BuilderExactSpan ==
    (b_pc = "done" /\ ValidBuilderInput /\ target_duration >= Last(segments_in).end)
        => /\ Last(b_result).end = target_duration
           /\ SumSeq(Durations(b_result)) = target_duration

\* C6: post_process_segments returns no timeline (it fails with InvalidInput)
\* whenever target_duration <= 0, the segments are not sorted by start, or
\* some segment has end < start.  The code has no failing exit: reaching
\* "done" is returning a list.
C6_BuilderRejectsInvalidInput ==
    (/\ segments_in # <<>>
     /\ \/ target_duration <= 0
        \/ ~SortedByStart(segments_in)
        \/ ~EndsAfterStarts(segments_in)) => b_pc # "done"

\* An interval that carries none of the input texts is a Silence interval.
IsSilenceText(t) == \A j \in 1..Len(SegTexts) : t # SegTexts[j]

\* The loop iteration for segment b_i, the gap in front of it, and the two
\* outcomes for that gap, read off the timeline before and after the step.
InteriorStep == b_pc = "loop" /\ b_i > 1 /\ b_i' = b_i + 1
InteriorGap == segments_in[b_i].start - segments_in[b_i - 1].end
InputLength(j) == segments_in[j].end - segments_in[j].start

GapAbsorbed ==
    LET n == Len(continuous_segments)
        before == continuous_segments
        after == continuous_segments'
    IN  /\ Len(after) = n + 1
        /\ SubSeq(after, 1, n - 1) = SubSeq(before, 1, n - 1)
        /\ after[n] = [before[n] EXCEPT !.end = @ + Half(InteriorGap)]
        /\ after[n + 1].start = after[n].end
        /\ after[n + 1].end - after[n + 1].start = InputLength(b_i) + Half(InteriorGap)
        /\ after[n + 1].text = segments_in[b_i].text

GapFilledBySilence ==
    LET n == Len(continuous_segments)
        before == continuous_segments
        after == continuous_segments'
    IN  /\ Len(after) = n + 2
        /\ SubSeq(after, 1, n) = before
        /\ IsSilenceText(after[n + 1].text)
        /\ after[n + 1].start = before[n].end
        /\ after[n + 1].end - after[n + 1].start = InteriorGap
        /\ after[n + 2].start = after[n + 1].end
        /\ after[n + 2].end - after[n + 2].start = InputLength(b_i)
        /\ after[n + 2].text = segments_in[b_i].text

LeadingStep == b_pc = "loop" /\ b_i = 1 /\ b_i' = 2
LeadingGap == segments_in[1].start
LeadingGapAbsorbed ==
    continuous_segments' = <<[start |-> 0, end |-> segments_in[1].end,
                              text |-> segments_in[1].text]>>

TrailingStep == b_pc = "final" /\ b_pc' = "done"
TrailingGap == target_duration - Last(continuous_segments).end
TrailingGapAbsorbed ==
    /\ Len(b_result') = Len(continuous_segments)
    /\ Last(b_result').end = target_duration
    /\ \A j \in 1..Len(b_result') : ~IsSilenceText(b_result'[j].text)
           \/ b_result'[j] = continuous_segments[j]
TrailingSilenceAppended ==
    /\ Len(b_result') = Len(continuous_segments) + 1
    /\ SubSeq(b_result', 1, Len(continuous_segments)) = continuous_segments
    /\ IsSilenceText(Last(b_result').text)
    /\ Last(b_result').start = Last(continuous_segments).end
    /\ Last(b_result').end = target_duration

C13_TrailingSilence ==
    [][(TrailingStep /\ TrailingGap > EPSILON) => TrailingSilenceAppended]_vars

\* A remainder below the threshold, and one above it, each closed by a
\* trailing Silence: here the one below (segments up to 2 s, target 1 s later).
C13_Witness ==
    /\ b_pc = "done"
    /\ ValidBuilderInput
    /\ Len(segments_in) = 2
    /\ continuous_segments # <<>>
    /\ target_duration = Last(segments_in).end + Sec
    /\ Len(b_result) = 3
    /\ b_result[3].end - b_result[3].start = Sec
    /\ IsSilenceText(b_result[3].text)

\* C14: post_process_segments returns an empty list for an empty segment
\* list; and for a (valid) input whose target_duration is smaller than the
\* last segment's end it returns a list to which no trailing Silence
\* interval was appended.
C14_BuilderEdgeCases ==
    /\ (b_pc = "done" /\ segments_in = <<>>) => b_result = <<>>
    /\ (b_pc = "done" /\ ValidBuilderInput
            /\ target_duration < Last(segments_in).end)
           => ~IsSilenceText(Last(b_result).text)

\* C24: for valid non-overlapping input every original segment's output
\* interval contains its input interval (output.start <= input.start and
\* output.end >= input.end): gaps of at most EPSILON that the builder
\* leaves unfilled do not shift later segments earlier.
C24_BuilderNoDrift ==
    (b_pc = "done" /\ ValidBuilderInput) =>
        \A j \in 1..Len(segments_in) :
            \E k \in 1..Len(b_result) :
                /\ b_result[k].text = segments_in[j].text
                /\ b_result[k].start <= segments_in[j].start
                /\ b_result[k].end >= segments_in[j].end

(***************************************************************************)
(* Properties of the splitter                                              *)
(***************************************************************************)
Clamp01(p) == Max(0, Min(Sec, p))

\* C4: for every D > 0, R >= 0 and P in [0,1], the durations of the
\* sub-entries returned by split_entry_into_sound_and_silence sum to D.
C4_SplitterConservation ==
    (/\ s_pc = "done"
     /\ s_entry.seconds > 0
     /\ timing_info.duration >= 0
     /\ timing_info.position >= 0 /\ timing_info.position <= Sec)
        => SumSeq(SecondsOf(s_result)) = s_entry.seconds

\* A split into leading silence, sound and trailing silence.
C4_Witness ==
    /\ s_pc = "done"
    /\ timing_info.duration > 0 /\ timing_info.duration < s_entry.seconds
    /\ timing_info.position > 0 /\ timing_info.position < Sec
    /\ Len(s_result) = 3

\* C7: the splitter clamps P to [0,1] before use: for D > 0 and R > 0 it
\* returns for P < 0 what it returns for P = 0, for P > 1 what it returns
\* for P = 1, and the sub-entry durations sum to D.
C7_SplitterClampsPosition ==
    (s_pc = "done" /\ s_entry.seconds > 0 /\ timing_info.duration > 0)
        => /\ s_result = split_entry_into_sound_and_silence(
                             s_entry, [timing_info EXCEPT !.position = Clamp01(@)])
           /\ SumSeq(SecondsOf(s_result)) = s_entry.seconds

\* C8: for every D > 0, every P and every R <= 0 the splitter returns
\* exactly one sub-entry, labelled Silence, of duration D.
C8_SplitterSilenceForNonPositiveSound ==
    (s_pc = "done" /\ s_entry.seconds > 0 /\ timing_info.duration <= 0)
        => s_result = <<[seconds |-> s_entry.seconds, description |-> "Silence"]>>

\* C17: for D > 0, R > 0 and P in [0,1] the splitter returns 1 to 3
\* sub-entries in the order leading Silence, Sound, trailing Silence; the
\* Sound has duration S = min(R, D) and the entry's description, the leading
\* Silence (D - S) * P, the trailing Silence D - S - (D - S) * P, and a
\* Silence of duration 0 is omitted (R >= D gives the single Sound(D), P = 0
\* no leading and P = 1 no trailing Silence).
C17_SplitterShape ==
    (/\ s_pc = "done"
     /\ s_entry.seconds > 0
     /\ timing_info.duration > 0
     /\ timing_info.position >= 0 /\ timing_info.position <= Sec)
        => LET D == s_entry.seconds
               S == IF timing_info.duration < D THEN timing_info.duration ELSE D
               lead == Times(D - S, timing_info.position)
               trail == D - S - lead
               sound == [seconds |-> S, description |-> s_entry.description]
               silence(x) == [seconds |-> x, description |-> "Silence"]
           IN  /\ Len(s_result) \in 1..3
               /\ s_result = (IF lead = 0 THEN <<>> ELSE <<silence(lead)>>)
                                 \o <<sound>>
                                 \o (IF trail = 0 THEN <<>> ELSE <<silence(trail)>>)
               /\ timing_info.duration >= D => s_result = <<sound>>
               /\ timing_info.position = 0 => s_result[1] = sound
               /\ timing_info.position = Sec => Last(s_result) = sound

\* An off-centre split: the sound in the last quarter of a wider window.
C17_Witness ==
    /\ s_pc = "done"
    /\ timing_info.duration > 0 /\ timing_info.duration < s_entry.seconds
    /\ timing_info.position = 3 * (Sec \div 4)
    /\ Len(s_result) = 3
    /\ s_result[1].seconds > s_result[3].seconds

(***************************************************************************)
(* Properties of the normalizer                                            *)
(***************************************************************************)
Normalized(es) ==
    /\ \A j \in 1..Len(es) : es[j].seconds >= MIN_DUR
    /\ \A j \in 1..(Len(es) - 1) :
           ~(es[j].description = "Silence" /\ es[j+1].description = "Silence")

\* C3: for every input list the durations of the entries returned by
\* post_process_entries sum to the sum of the input durations.
C3_NormalizerConservation ==
    n_pc = "done" =>
        SumSeq(SecondsOf(Values(n_result))) = SumSeq(SecondsOf(entries_in))

\* C5: every entry returned by post_process_entries has duration >= MIN_DUR.
C5_NormalizerMinimumDuration ==
    n_pc = "done" =>
        \A j \in 1..Len(n_result) : heap[n_result[j]].seconds >= MIN_DUR

\* C9: on an input with no two adjacent Silence entries and no entry below
\* MIN_DUR, post_process_entries returns the same entries, in the same
\* order, with the same durations and labels.
C9_NormalizerIdempotence ==
    (n_pc = "done" /\ Normalized(entries_in)) => Values(n_result) = entries_in

\* A normalized input of three or more entries, sounds and silences mixed,
\* some of exactly MIN_DUR, has been processed.
C9_Witness ==
    /\ n_pc = "done"
    /\ Normalized(entries_in)
    /\ Len(entries_in) >= 3
    /\ \E j \in 1..Len(entries_in) : entries_in[j].description = "Silence"
    /\ \E j \in 1..Len(entries_in) :
           entries_in[j].description # "Silence" /\ entries_in[j].seconds = MIN_DUR

IsSilence(e) == e.description = "Silence"
NoAdjacentSilence(es) ==
    \A j \in 1..(Len(es) - 1) : ~(IsSilence(es[j]) /\ IsSilence(es[j + 1]))

\* Coalescing stated from the right: a Silence in front of a coalesced list
\* that starts with a Silence is added to it.
RECURSIVE Coalesce(_)
Coalesce(es) ==
    IF es = <<>> THEN <<>>
    ELSE LET rest == Coalesce(Tail(es))
         IN  IF IsSilence(Head(es)) /\ rest # <<>> /\ IsSilence(Head(rest))
             THEN <<[seconds |-> Head(es).seconds + Head(rest).seconds,
                     description |-> "Silence"]>> \o Tail(rest)
             ELSE <<Head(es)>> \o rest

AfterStep1 == n_pc = "adjust" /\ n_i = 1

\* C18: the list produced by step 1 of post_process_entries has no two
\* adjacent Silence entries; each maximal run of Silence input entries is
\* replaced by one Silence whose duration is the sum of the run; the
\* non-Silence entries appear unchanged and in their original order.
C18_SilenceCoalescing ==
    AfterStep1 =>
        /\ NoAdjacentSilence(Values(merged_entries))
        /\ Values(merged_entries) = Coalesce(entries_in)
        /\ SelectSeq(merged_entries, LAMBDA id : ~IsSilence(heap[id]))
               = SelectSeq(entries, LAMBDA id : ~IsSilence(heap[id]))
        /\ Values(entries) = entries_in

\* Step 1 has merged a run of silences in a list that also holds a sound
\* with silence on both sides.
C18_Witness ==
    /\ AfterStep1
    /\ Len(merged_entries) = 3
    /\ Len(entries) > 3
    /\ IsSilence(heap[merged_entries[1]])
    /\ ~IsSilence(heap[merged_entries[2]])
    /\ IsSilence(heap[merged_entries[3]])

\* Demotion as a pass of its own, followed by the rescue as a pass of its
\* own, over a list of entry values.
DemoteAll(es) ==
    [j \in 1..Len(es) |->
        IF es[j].seconds < MIN_DUR /\ ~IsSilence(es[j])
        THEN [es[j] EXCEPT !.description = "Silence"]
        ELSE es[j]]

RECURSIVE RescueFrom(_, _)
RescueFrom(es, i) ==
    IF i > Len(es) THEN es
    ELSE RescueFrom(adjust_short_silence(es, [j \in 1..Len(es) |-> j], i), i + 1)

AfterStep2 == n_pc = "adjust" /\ n_i > Len(merged_entries)

\* C19 (as claimed): every entry that after coalescing, before any rescue
\* adjustment, is a Sound with duration < MIN_DUR is relabelled Silence; the
\* interleaved loop of the code yields the labels and durations of demotion
\* over the whole list followed by the rescue.
C19_DemotionIsSeparatePassClaimed ==
    AfterStep2 =>
        /\ \A j \in 1..Len(merged_entries) :
               (~IsSilence(Coalesce(entries_in)[j])
                    /\ Coalesce(entries_in)[j].seconds < MIN_DUR)
                   => IsSilence(heap[merged_entries[j]])
        /\ Values(merged_entries) = RescueFrom(DemoteAll(Coalesce(entries_in)), 1)

AdjustStep == n_pc = "adjust" /\ n_i <= Len(merged_entries) /\ n_i' = n_i + 1

\* C19 (amended): demotion is interleaved with the rescue.  When the loop
\* reaches an entry that is then a Sound with duration < MIN_DUR, the
\* duration being the one left by the processing of the earlier entries, the
\* entry is relabelled Silence; a Sound whose duration is then >= MIN_DUR
\* keeps its label and its duration in its own step; no step changes the
\* label of another entry.
C19_DemotionInterleaved ==
    [][AdjustStep =>
          LET id == merged_entries[n_i]
          IN  /\ (~IsSilence(heap[id]) /\ heap[id].seconds < MIN_DUR)
                     => IsSilence(heap'[id])
              /\ (~IsSilence(heap[id]) /\ heap[id].seconds >= MIN_DUR)
                     => heap'[id] = heap[id]
              /\ \A j \in 1..Len(heap) :
                     j # id => heap'[j].description = heap[j].description]_vars

\* One short sound was demoted, and another one, short on input, had been
\* lifted to MIN_DUR by its neighbour's distribution and kept its label.
C19_Witness ==
    /\ n_pc = "done"
    /\ \E id \in 1..Len(entries) :
           /\ ~IsSilence(entries_in[id]) /\ entries_in[id].seconds < MIN_DUR
           /\ IsSilence(heap[id])
    /\ \E id \in 1..Len(entries) :
           /\ ~IsSilence(entries_in[id]) /\ entries_in[id].seconds < MIN_DUR
           /\ ~IsSilence(heap[id]) /\ heap[id].seconds >= MIN_DUR

\* C20: an entry lends to a short neighbour only if its duration is
\* > MIN_DUR; the amount is min(0.10 * its duration, shortfall / 2), capped
\* at its duration - MIN_DUR; after lending its duration is still >= MIN_DUR.
\* Only the two neighbours of the entry being processed can lose duration.
C20_LendingBound ==
    [][AdjustStep =>
          LET shortfall == MIN_DUR - heap[merged_entries[n_i]].seconds
          IN  \A j \in 1..Len(merged_entries) :
                  LET before == heap[merged_entries[j]].seconds
                      after == heap'[merged_entries[j]].seconds
                  IN  (j # n_i /\ after < before) =>
                          /\ j \in {n_i - 1, n_i + 1}
                          /\ before > MIN_DUR
                          /\ before - after =
                                 Min(Min(Tenth(before), Half(shortfall)),
                                     before - MIN_DUR)
                          /\ after >= MIN_DUR]_vars

\* The first of three sounds has lent to the short second one.
C20_Witness ==
    /\ n_pc = "adjust"
    /\ n_i = 3
    /\ Len(entries_in) >= 3
    /\ \A j \in 1..Len(entries_in) : ~IsSilence(entries_in[j])
    /\ entries_in[2].seconds < MIN_DUR
    /\ heap[1].seconds < entries_in[1].seconds
    /\ heap[1].seconds >= MIN_DUR
    /\ heap[2].seconds = MIN_DUR

\* What the loop sees of the entry it is visiting: the entry after the
\* demotion test of lines 300-303, its shortfall, and what the neighbour at
\* position j can lend, all on the durations as they are now.
Visited == merged_entries[n_i]
Demoted == convert_short_sound(heap, Visited)
Shortfall == MIN_DUR - heap[Visited].seconds
Lendable(j) ==
    IF j >= 1 /\ j <= Len(merged_entries) /\ heap[merged_entries[j]].seconds > MIN_DUR
    THEN LET d == heap[merged_entries[j]].seconds
         IN  Min(Min(Tenth(d), Half(Shortfall)), d - MIN_DUR)
    ELSE 0
ShortWhenVisited == heap[Visited].seconds < MIN_DUR
InfeasibleStep ==
    AdjustStep /\ ShortWhenVisited /\ Lendable(n_i - 1) + Lendable(n_i + 1) < Shortfall
FeasibleStep ==
    AdjustStep /\ ShortWhenVisited /\ Lendable(n_i - 1) + Lendable(n_i + 1) >= Shortfall
HasPrev == n_i > 1
HasNext == n_i < Len(merged_entries)
SecondsAt(h, j) == h[merged_entries[j]].seconds

\* C21: when the lendable amounts of both sides sum to less than the
\* shortfall, the short entry's own duration is given away in full: half to
\* each neighbour if both exist, all of it to the single neighbour if only
\* one exists; the entry's duration becomes 0 and the distribution does not
\* change its label.
C21_DistributeGivesAllAway ==
    [][InfeasibleStep =>
          LET own == heap[Visited].seconds
          IN  /\ heap'[Visited].seconds = 0
              /\ heap'[Visited].description = Demoted[Visited].description
              /\ (HasPrev /\ HasNext) =>
                     /\ SecondsAt(heap', n_i - 1) = SecondsAt(heap, n_i - 1) + Half(own)
                     /\ SecondsAt(heap', n_i + 1) = SecondsAt(heap, n_i + 1) + Half(own)
              /\ (HasPrev /\ ~HasNext) =>
                     SecondsAt(heap', n_i - 1) = SecondsAt(heap, n_i - 1) + own
              /\ (~HasPrev /\ HasNext) =>
                     SecondsAt(heap', n_i + 1) = SecondsAt(heap, n_i + 1) + own]_vars

\* C22: when the lendable amounts of the two neighbours sum to at least the
\* shortfall, each neighbour's duration decreases by exactly its lendable
\* amount, the short entry's duration increases by their sum and becomes
\* exactly MIN_DUR, and no other entry changes.
C22_SuccessfulRescue ==
    [][FeasibleStep =>
          /\ HasPrev => SecondsAt(heap', n_i - 1)
                            = SecondsAt(heap, n_i - 1) - Lendable(n_i - 1)
          /\ HasNext => SecondsAt(heap', n_i + 1)
                            = SecondsAt(heap, n_i + 1) - Lendable(n_i + 1)
          /\ heap'[Visited].seconds
                 = heap[Visited].seconds + Lendable(n_i - 1) + Lendable(n_i + 1)
          /\ heap'[Visited].seconds = MIN_DUR
          /\ \A id \in 1..Len(heap) :
                 id \notin {merged_entries[j] : j \in {n_i - 1, n_i, n_i + 1}
                                                     \cap 1..Len(merged_entries)}
                     => heap'[id] = heap[id]
          /\ Len(heap') = Len(heap)]_vars

\* Durations 5, 0.4, 5: the short sound in the middle has been demoted and
\* lifted to MIN_DUR by 0.3 from each side.
C22_Witness ==
    /\ n_pc = "adjust"
    /\ n_i = 3
    /\ entries_in = <<[seconds |-> 5 * Sec, description |-> "rain"],
                      [seconds |-> 2 * (Sec \div 5), description |-> "rain"],
                      [seconds |-> 5 * Sec, description |-> "rain"]>>
    /\ heap[1].seconds = 5 * Sec - 3 * (Sec \div 10)
    /\ heap[2] = [seconds |-> MIN_DUR, description |-> "Silence"]
    /\ heap[3].seconds = 5 * Sec - 3 * (Sec \div 10)

\* C23: the entries are visited in increasing index order, exactly once
\* each: a visit appends the entry at the loop position to final_entries
\* and moves to the next position, so final_entries is always the visited
\* prefix of merged_entries.  The test and the lendable amounts of a visit
\* are taken on the durations as the earlier visits left them: an entry
\* that is now >= MIN_DUR is left alone with the whole list, an entry that
\* is now short ends at MIN_DUR or at 0 according to what its neighbours
\* can lend now, and only its two neighbours change with it.
VisitStep ==
    /\ n_pc = "adjust" /\ n_i <= Len(merged_entries)
    /\ final_entries' # final_entries
C23_LeftToRightOnCurrentState ==
    /\ [](n_pc = "adjust" =>
              /\ n_i \in 1..(Len(merged_entries) + 1)
              /\ final_entries = SubSeq(merged_entries, 1, n_i - 1))
    /\ [][VisitStep =>
              /\ n_i' = n_i + 1
              /\ final_entries' = Append(final_entries, Visited)
              /\ ~ShortWhenVisited => heap' = heap
              /\ ShortWhenVisited =>
                     /\ heap'[Visited].seconds =
                            IF Lendable(n_i - 1) + Lendable(n_i + 1) >= Shortfall
                            THEN MIN_DUR ELSE 0
                     /\ \A j \in 1..Len(merged_entries) :
                            SecondsAt(heap', j) # SecondsAt(heap, j)
                                => j \in {n_i - 1, n_i, n_i + 1}]_vars

\* The second of three entries was short on input, the first one's
\* distribution has lifted it to MIN_DUR or above, and its own visit has
\* left it as it then was.
C23_Witness ==
    /\ n_pc = "adjust"
    /\ n_i = 3
    /\ Len(merged_entries) = 3
    /\ Len(entries_in) = 3
    /\ entries_in[2].seconds < MIN_DUR
    /\ ~IsSilence(entries_in[2])
    /\ heap[merged_entries[1]].seconds = 0
    /\ heap[merged_entries[2]].seconds >= MIN_DUR
    /\ ~IsSilence(heap[merged_entries[2]])

\* C25: once the distribute branch has set a visited entry's duration to 0,
\* the duration stays 0 for the rest of the pass, and the entry is absent
\* from the returned list.
C25_RemovalIsFinal ==
    /\ [][n_pc = "adjust" =>
              \A j \in 1..Len(final_entries) :
                  heap[final_entries[j]].seconds = 0
                      => heap'[final_entries[j]].seconds = 0]_vars
    /\ [](n_pc = "done" =>
              \A j \in 1..Len(n_result) : heap[n_result[j]].seconds > 0)

\* C26: an entry that is short when visited and has at most one neighbour
\* can be lent at most half of its shortfall, so its visit takes the
\* distribute branch: its duration becomes 0 and no neighbour loses
\* duration.  Such an entry never reaches MIN_DUR afterwards: whatever the
\* first entry is handed back by the second one leaves it below MIN_DUR,
\* and the last entry is not touched after its visit.
BoundaryVisit == AdjustStep /\ ShortWhenVisited /\ (~HasPrev \/ ~HasNext)
RECURSIVE AdjustFrom(_, _)
AdjustFrom(es, i) ==
    IF i > Len(es) THEN es
    ELSE AdjustFrom(adjust_short_silence(convert_short_sound(es, i),
                                         [j \in 1..Len(es) |-> j], i), i + 1)
post_process_entries(es) ==
    IF es = <<>> THEN es
    ELSE SelectSeq(AdjustFrom(Coalesce(es), 1), LAMBDA e : e.seconds > 0)

\* C27: the output of post_process_entries is a fixed point of it, and it
\* contains no two adjacent Silence entries.
C27_NormalizerFixedPoint ==
    n_pc = "done" =>
        /\ NoAdjacentSilence(Values(n_result))
        /\ post_process_entries(Values(n_result)) = Values(n_result)

\* C10: post_process_segments and post_process_entries do not modify their
\* input: after either returns, every element of the caller's list has the
\* start/end/text (builder), the seconds/description (normalizer) it had
\* before the call.
C10_InputsUnmodified ==
    /\ b_pc = "done" => segments = segments_in
    /\ n_pc = "done" => Values(entries) = entries_in

(***************************************************************************)
(* Driver properties                                                       *)
(***************************************************************************)
HandleStep == p_pc = "handle" /\ p_pc' = "loop"

\* The call raised, or the text is not a JSON answer with a positive numeric
\* duration and a usable position.
EstimateFailed(r) ==
    \/ r.raised
    \/ ~(r.json /\ r.duration_numeric /\ r.duration > 0 /\ r.position_kind # "other")

EmittedByStep ==
    SubSeq(all_sfx_entries', Len(all_sfx_entries) + 1, Len(all_sfx_entries'))

\* C15: when the estimator call for a sound entry raises or its response
\* cannot be parsed, process_timing does not abort: the step appends
\* sub-entries whose durations sum to the entry's duration and moves on to
\* the next entry, and the loop is left only after the last entry.
C15_EstimatorFailureFallback ==
    /\ [][HandleStep =>
            /\ p_i' = p_i + 1
            /\ EstimateFailed(response) =>
                   /\ SubSeq(all_sfx_entries', 1, Len(all_sfx_entries)) = all_sfx_entries
                   /\ SumSeq(SecondsOf(EmittedByStep)) = timing_entries[p_i].seconds]_vars
    /\ [](p_pc = "saving" => /\ p_i = Len(timing_entries) + 1
                             /\ Len(all_sfx_entries) >= Len(timing_entries))

C15_Witness ==
    /\ p_pc = "loop"
    /\ Len(timing_entries) = 2
    /\ p_i = 2
    /\ response.raised
    /\ all_sfx_entries = <<[seconds |-> 2 * Sec, description |-> "rain"]>>

\* C16: every (duration, position) pair passed to the splitter has a
\* duration > 0 and a position within [0, 1].
C16_EstimatorOutputValidated ==
    p_timing_info.called =>
        /\ p_timing_info.duration > 0
        /\ p_timing_info.position >= 0
        /\ p_timing_info.position <= Sec

\* C28: the flattened list that process_timing hands to the normalizer has
\* total duration equal to the sum of the durations of all entries parsed
\* from the timing file, also when the timing and timeline files hold
\* different numbers of entries.
C28_FlatteningConservesDuration ==
    p_pc = "saving" =>
        SumSeq(SecondsOf(all_sfx_entries)) = SumSeq(SecondsOf(timing_parsed))

(***************************************************************************)
(* Renderer properties                                                     *)
(***************************************************************************)
\* C29: whatever order the worker threads complete in, the files are joined
\* in ascending order_index: the pieces of the final audio are in the order
\* of their entries in the timeline, each piece being the file of its
\* entry.
C29_RenderOrder ==
    r_pc \in {"concat", "done"} =>
        /\ \A j \in 1..(Len(final_audio) - 1) :
               final_audio[j].order_index < final_audio[j + 1].order_index
        /\ \A j \in 1..Len(final_audio) :
               /\ final_audio[j].order_index \in 0..(Len(updated_entries) - 1)
               /\ final_audio[j].description
                      = updated_entries[final_audio[j].order_index + 1].description

\* Three workers ran together and finished in the reverse of the timeline
\* order; every piece was joined.
C29_Witness ==
    /\ r_pc = "done"
    /\ Len(updated_entries) >= 3
    /\ Len(final_audio) = Len(updated_entries)
    /\ completed[1] > completed[2]
    /\ completed[2] > completed[3]

====
